---- MODULE Spec2Model ----
(***************************************************************************)
(* Model of the sign-language recognizer's model selectors                 *)
(* (my_model_selectors.py: SelectorConstant, SelectorBIC, SelectorDIC,     *)
(* SelectorCV) and of recognize (my_recognizer.py).                        *)
(*                                                                         *)
(* The HMM engine (GaussianHMM.fit / .score), KFold and combine_sequences   *)
(* are external: every fit and every score call is an environment choice   *)
(* between raising and returning (a model / a finite log-likelihood).      *)
(* Floating point values are modelled as exact rationals n/d extended with *)
(* +inf, -inf and nan, compared the way IEEE comparisons behave.            *)
(***************************************************************************)
EXTENDS Integers, Sequences, FiniteSets, TLC

\* ------------------------------------------------------------------ bounds
MaxStates == 3
MaxOthers == 2
MaxSeqs == 3
MaxFeatures == 2
MaxFrames == 3
MaxWords == 2
MaxItems == 2

\* log-likelihoods a successful score call may return
Scores == {-3, 1}

\* default of the n_constant constructor argument
DefaultNConstant == 3

\* ------------------------------------------------------------------ values
\* floats: a rational n/d (d > 0), or one of the IEEE specials
Fin(n, d) == [k |-> "fin", n |-> n, d |-> d]
PosInf == [k |-> "inf", n |-> 0, d |-> 1]
NegInf == [k |-> "ninf", n |-> 0, d |-> 1]
NaN == [k |-> "nan", n |-> 0, d |-> 1]

\* a < b on floats; every comparison with nan is false
Lt(a, b) ==
    CASE a.k = "nan" \/ b.k = "nan" -> FALSE
      [] a.k = "inf" -> FALSE
      [] a.k = "ninf" -> b.k # "ninf"
      [] b.k = "inf" -> TRUE
      [] b.k = "ninf" -> FALSE
      [] OTHER -> a.n * b.d < b.n * a.d

Gt(a, b) == Lt(b, a)

\* a - b on floats, for a finite or nan operand (the only ones that occur)
Sub(a, b) ==
    IF a.k = "fin" /\ b.k = "fin"
    THEN Fin(a.n * b.d - b.n * a.d, a.d * b.d)
    ELSE NaN

RECURSIVE SumSeq(_)
SumSeq(s) == IF s = <<>> THEN 0 ELSE Head(s) + SumSeq(Tail(s))

\* np.mean of a list of finite floats; the mean of an empty list is nan
NpMean(vec) == IF Len(vec) = 0 THEN NaN ELSE Fin(SumSeq(vec), Len(vec))

\* np.log(N) in thousandths, N >= 1
NpLogMilli(N) ==
    CASE N = 1 -> 0
      [] N = 2 -> 693
      [] N = 3 -> 1099
      [] N = 4 -> 1386
      [] N = 5 -> 1609
      [] OTHER -> 1792

\* Python's None / an int, for best_num_components
NoneInt == [some |-> FALSE, v |-> 0]
Some(n) == [some |-> TRUE, v |-> n]

\* a GaussianHMM object: its n_components and the data it was fitted on
None == [n |-> 0, data |-> "none"]
Model(n, data) == [n |-> n, data |-> data]

\* the outcome of one score call: raised, or a finite log-likelihood
ScoreFail == [ok |-> FALSE, v |-> 0]
ScoreOutcomes == {ScoreFail} \cup {[ok |-> TRUE, v |-> s] : s \in Scores}

VARIABLES
    \* ModelSelector fields
    strategy, min_n_components, max_n_components, n_constant,
    n_sequences, n_others, n_features, n_frames,
    \* locals of select()
    pc, num_states, best_model, best_score, best_num_components,
    retrain_arg, result,
    \* what the engine answered for each candidate visited, in visiting order
    log,
    \* recognize(): arguments, locals and position
    models, n_items, rpc, item, widx, probability_dict, probabilities, guesses,
    \* what each model answered for each test item scored so far
    rlog

selVars == <<strategy, min_n_components, max_n_components, n_constant,
             n_sequences, n_others, n_features, n_frames,
             pc, num_states, best_model, best_score, best_num_components,
             retrain_arg, result, log>>
recVars == <<models, n_items, rpc, item, widx, probability_dict,
             probabilities, guesses, rlog>>
vars == <<selVars, recVars>>

cfgVars == <<strategy, min_n_components, max_n_components, n_constant,
             n_sequences, n_others, n_features, n_frames>>

Strategies == {"Constant", "BIC", "DIC", "CV"}

\* ------------------------------------------------------- ModelSelector
\* GaussianHMM(n_components=...).fit(...): raises when the engine fails, and
\* always when n_components is None
Fit(n_components, data, fit_ok) ==
    IF n_components.some /\ fit_ok
    THEN [raised |-> FALSE, model |-> Model(n_components.v, data)]
    ELSE [raised |-> TRUE, model |-> None]

\* the except clause of base_model: return None
BaseModelExcept == [raised |-> FALSE, model |-> None]

\* base_model(num_states): the fit wrapped in try/except
base_model(n_components, fit_ok) ==
    LET f == Fit(n_components, "full", fit_ok)
    IN IF f.raised THEN BaseModelExcept ELSE f

\* hmm_model.score(...): an AttributeError on None, else the engine's answer
ModelScore(hmm_model, sc) ==
    IF hmm_model = None \/ ~sc.ok
    THEN [raised |-> TRUE, v |-> NaN]
    ELSE [raised |-> FALSE, v |-> Fin(sc.v, 1)]

\* a search whose except clause lets the exception out
ExceptReraise == "raised"

\* "except: continue" of the three searches: the loop goes on
ExceptContinue == "loop"

\* range(self.min_n_components, self.max_n_components + 1), off by one
RangeStopPastEnd == max_n_components + 2

\* range(self.min_n_components, self.max_n_components + 1)
RangeStop == max_n_components + 1

\* a search that starts from a model nobody trained
StaleBest == Model(DefaultNConstant, "full")

\* best_model = None
NoBest == None

LogEntry(n, trained, scored, logL, sum, cnt, folds, on) ==
    [n |-> n, trained |-> trained, scored |-> scored, logL |-> logL,
     sum |-> sum, cnt |-> cnt, folds |-> folds, on |-> on]

\* the state after construction: the fields are set, select() has not run.
\* A field a strategy never reads is held at one value.
SelInit ==
    /\ strategy \in Strategies
    /\ min_n_components \in 1..MaxStates
    /\ max_n_components \in 1..MaxStates
    /\ n_constant \in IF strategy = "Constant" THEN 1..(MaxStates + 1)
                      ELSE {DefaultNConstant}
    /\ n_sequences \in IF strategy = "CV" THEN 1..MaxSeqs ELSE {1}
    /\ n_others \in IF strategy = "DIC" THEN 0..MaxOthers ELSE {1}
    /\ n_features \in IF strategy = "BIC" THEN 1..MaxFeatures ELSE {1}
    /\ n_frames \in IF strategy = "BIC" THEN 1..MaxFrames ELSE {1}
    /\ pc = "constructed"
    /\ num_states = 0
    /\ best_model = None
    /\ best_score = NaN
    /\ best_num_components = NoneInt
    /\ retrain_arg = NoneInt
    /\ result = None
    /\ log = <<>>

\* ---------------------------------------------------- SelectorConstant
ConstantSelect ==
    /\ pc = "constructed"
    /\ strategy = "Constant"
    /\ \E fit_ok \in BOOLEAN :
        LET m == base_model(Some(n_constant), fit_ok)
        IN /\ result' = m.model
           /\ pc' = IF m.raised THEN "raised" ELSE "done"
           /\ log' = <<LogEntry(n_constant, fit_ok, FALSE, 0, 0, 0, 0, "full")>>
    /\ UNCHANGED <<cfgVars, num_states, best_model, best_score,
                   best_num_components, retrain_arg>>
    /\ UNCHANGED recVars

\* --------------------------------------------------------- SelectorBIC
BICStart ==
    /\ pc = "constructed"
    /\ strategy = "BIC"
    /\ best_model' = NoBest
    /\ best_score' = PosInf
    /\ num_states' = min_n_components
    /\ pc' = "loop"
    /\ UNCHANGED <<cfgVars, best_num_components, retrain_arg, result, log>>
    /\ UNCHANGED recVars

\* p = num_states ** 2 + 2 * num_states * hmm_model.n_features - 1
BICParams(n, features) == n * n + 2 * n * features - 1

\* BIC_score = -2 * logL + p * logN, in thousandths
BICScore(logL, n, features, N) ==
    Fin(-2 * logL.n * 1000 + BICParams(n, features) * NpLogMilli(N), 1000)

\* the comparison turned around
BICWorse(score, best) == Lt(best, score)

\* if BIC_score < best_score
BICBetter(score, best) == Lt(score, best)

BICIter ==
    /\ pc = "loop"
    /\ strategy = "BIC"
    /\ num_states < RangeStop
    /\ \E fit_ok \in BOOLEAN, sc \in ScoreOutcomes :
        LET m == base_model(Some(num_states), fit_ok)
            s == IF m.raised THEN [raised |-> TRUE, v |-> NaN]
                 ELSE ModelScore(m.model, sc)
            BIC_score == BICScore(s.v, num_states, n_features, n_frames)
            better == ~s.raised /\ BICBetter(BIC_score, best_score)
        IN /\ best_model' = IF better THEN m.model ELSE best_model
           /\ best_score' = IF better THEN BIC_score ELSE best_score
           /\ pc' = IF s.raised THEN ExceptContinue ELSE "loop"
           /\ log' = Append(log,
                 LogEntry(num_states, m.model # None, ~s.raised,
                          IF s.raised THEN 0 ELSE sc.v, 0, 0, 0, "full"))
    /\ num_states' = num_states + 1
    /\ UNCHANGED <<cfgVars, best_num_components, retrain_arg, result>>
    /\ UNCHANGED recVars

BICReturn ==
    /\ pc = "loop"
    /\ strategy = "BIC"
    /\ ~(num_states < RangeStop)
    /\ result' = best_model
    /\ pc' = "done"
    /\ UNCHANGED <<cfgVars, num_states, best_model, best_score,
                   best_num_components, retrain_arg, log>>
    /\ UNCHANGED recVars

\* --------------------------------------------------------- SelectorDIC
DICStart ==
    /\ pc = "constructed"
    /\ strategy = "DIC"
    /\ best_model' = NoBest
    /\ best_score' = NegInf
    /\ num_states' = min_n_components
    /\ pc' = "loop"
    /\ UNCHANGED <<cfgVars, best_num_components, retrain_arg, result, log>>
    /\ UNCHANGED recVars

\* DIC_score = logL - np.mean(anti_logL_vec)
DICScore(logL, anti_logL_vec) == Sub(logL, NpMean(anti_logL_vec))

\* if DIC_score > best_score
DICBetter(score, best) == Gt(score, best)

DICIter ==
    /\ pc = "loop"
    /\ strategy = "DIC"
    /\ num_states < RangeStop
    /\ \E fit_ok \in BOOLEAN, sc \in ScoreOutcomes,
          anti \in [1..n_others -> ScoreOutcomes] :
        LET m == base_model(Some(num_states), fit_ok)
            s == IF m.raised THEN [raised |-> TRUE, v |-> NaN]
                 ELSE ModelScore(m.model, sc)
            \* the list comprehension over the other words raises when any
            \* of its score calls does
            antiRaised == \E i \in 1..n_others :
                              ModelScore(m.model, anti[i]).raised
            raised == s.raised \/ antiRaised
            anti_logL_vec == [i \in 1..n_others |-> anti[i].v]
            DIC_score == DICScore(s.v, anti_logL_vec)
            better == ~raised /\ DICBetter(DIC_score, best_score)
        IN /\ best_model' = IF better THEN m.model ELSE best_model
           /\ best_score' = IF better THEN DIC_score ELSE best_score
           /\ pc' = IF raised THEN ExceptContinue ELSE "loop"
           /\ log' = Append(log,
                 LogEntry(num_states, m.model # None, ~raised,
                          IF raised THEN 0 ELSE sc.v,
                          IF raised THEN 0 ELSE SumSeq(anti_logL_vec),
                          IF raised THEN 0 ELSE n_others, 0, "full"))
    /\ num_states' = num_states + 1
    /\ UNCHANGED <<cfgVars, best_num_components, retrain_arg, result>>
    /\ UNCHANGED recVars

DICReturn ==
    /\ pc = "loop"
    /\ strategy = "DIC"
    /\ ~(num_states < RangeStop)
    /\ result' = best_model
    /\ pc' = "done"
    /\ UNCHANGED <<cfgVars, num_states, best_model, best_score,
                   best_num_components, retrain_arg, log>>
    /\ UNCHANGED recVars

\* ---------------------------------------------------------- SelectorCV
CVStart ==
    /\ pc = "constructed"
    /\ strategy = "CV"
    /\ best_num_components' = NoneInt
    /\ best_score' = NegInf
    /\ num_states' = min_n_components
    /\ pc' = "loop"
    /\ UNCHANGED <<cfgVars, best_model, retrain_arg, result, log>>
    /\ UNCHANGED recVars

\* always 3 folds
NSplitsThree(n) == 3

\* n_splits = 2 if len(self.sequences) == 2 else 3
NSplits(n) == IF n = 2 THEN 2 ELSE 3

\* KFold(n_splits=k).split of n samples (no shuffle): k contiguous test
\* blocks over the indices 0..n-1, the first n % k of them one longer; the
\* train indices are the rest. Raises when k > n.
KFoldSplit(k, n) ==
    LET q == n \div k
        r == n % k
        start(i) == (i - 1) * q + (IF i - 1 < r THEN i - 1 ELSE r)
        size(i) == q + (IF i <= r THEN 1 ELSE 0)
        test(i) == start(i)..(start(i) + size(i) - 1)
    IN IF k > n
       THEN [raised |-> TRUE, folds |-> <<>>]
       ELSE [raised |-> FALSE,
             folds |-> [i \in 1..k |->
                          [train |-> (0..(n - 1)) \ test(i), test |-> test(i)]]]

\* what the engine answers in one fold: the fit fails, or the fit succeeds
\* and the score call fails or returns a log-likelihood
FoldOutcomes ==
    {[fit_ok |-> FALSE, sc |-> ScoreFail]}
        \cup {[fit_ok |-> TRUE, sc |-> sc] : sc \in ScoreOutcomes}

\* the comparison turned around
CVWorse(avg, best) == Lt(avg, best)

\* if avg_logL > best_logL
CVBetter(avg, best) == Gt(avg, best)

CVIter ==
    /\ pc = "loop"
    /\ strategy = "CV"
    /\ num_states < RangeStop
    /\ LET split == IF n_sequences > 1
                    THEN KFoldSplit(NSplits(n_sequences), n_sequences)
                    ELSE [raised |-> FALSE, folds |-> <<>>]
           k == Len(split.folds)
       IN \E fo \in [1..k -> FoldOutcomes],
             fit_ok \in BOOLEAN, sc \in ScoreOutcomes :
        LET \* the k-fold branch
            foldFit(i) == Fit(Some(num_states), "fold", fo[i].fit_ok)
            foldScore(i) == ModelScore(foldFit(i).model, fo[i].sc)
            foldRaised == split.raised
                            \/ \E i \in 1..k : foldFit(i).raised
                                                 \/ foldScore(i).raised
            \* the single-sequence branch
            m == base_model(Some(num_states), fit_ok)
            s == IF m.raised THEN [raised |-> TRUE, v |-> NaN]
                 ELSE ModelScore(m.model, sc)
            kfold == n_sequences > 1
            raised == IF kfold THEN foldRaised ELSE s.raised
            logL_vec == IF kfold THEN [i \in 1..k |-> fo[i].sc.v]
                        ELSE <<sc.v>>
            avg_logL == NpMean(logL_vec)
            better == ~raised /\ CVBetter(avg_logL, best_score)
            trained == IF kfold THEN k > 0 /\ ~foldFit(1).raised
                       ELSE m.model # None
        IN /\ best_num_components' =
                 IF better THEN Some(num_states) ELSE best_num_components
           /\ best_score' = IF better THEN avg_logL ELSE best_score
           /\ pc' = IF raised THEN ExceptContinue ELSE "loop"
           /\ log' = Append(log,
                 LogEntry(num_states, trained, ~raised, 0,
                          IF raised THEN 0 ELSE SumSeq(logL_vec),
                          IF raised THEN 0 ELSE Len(logL_vec),
                          k, IF kfold THEN "fold" ELSE "full"))
    /\ num_states' = num_states + 1
    /\ UNCHANGED <<cfgVars, best_model, retrain_arg, result>>
    /\ UNCHANGED recVars

\* return self.base_model(best_num_components)
CVReturn ==
    /\ pc = "loop"
    /\ strategy = "CV"
    /\ ~(num_states < RangeStop)
    /\ retrain_arg' = best_num_components
    /\ \E fit_ok \in BOOLEAN :
        LET m == base_model(best_num_components, fit_ok)
        IN /\ result' = m.model
           /\ pc' = IF m.raised THEN "raised" ELSE "done"
    /\ UNCHANGED <<cfgVars, num_states, best_model, best_score,
                   best_num_components, log>>
    /\ UNCHANGED recVars

\* ----------------------------------------------------------- recognize
\* the bank is a dict: its words in iteration order, without repetition
Words == 1..MaxWords

Banks == {b \in UNION {[1..n -> Words] : n \in 0..MaxWords} :
             \A i, j \in 1..Len(b) : i # j => b[i] # b[j]}

\* a Python dict: its keys in insertion order and their values
EmptyDict == [keys |-> <<>>, val |-> <<>>]

\* d[k] = v
DictSet(d, k, v) ==
    IF \E i \in 1..Len(d.keys) : d.keys[i] = k
    THEN [keys |-> d.keys, val |-> [d.val EXCEPT ![k] = v]]
    ELSE [keys |-> Append(d.keys, k),
          val |-> [w \in DOMAIN d.val \cup {k} |->
                     IF w = k THEN v ELSE d.val[w]]]

\* a max() that lets a later equal key win
MaxReplacesOnTie(cand, cur) == ~Lt(cand, cur)

\* the comparison max() makes: the candidate replaces the current maximum
\* only when its key is strictly greater
MaxReplaces(cand, cur) == Gt(cand, cur)

RECURSIVE MaxFrom(_, _, _, _)
MaxFrom(keys, val, i, cur) ==
    IF i > Len(keys) THEN cur
    ELSE MaxFrom(keys, val, i + 1,
                 IF MaxReplaces(val[keys[i]], val[cur]) THEN keys[i] ELSE cur)

\* max(probability_dict.keys(), key=lambda k: probability_dict[k]):
\* a ValueError on an empty dict
PyMax(d) ==
    IF Len(d.keys) = 0
    THEN [raised |-> TRUE, v |-> 0]
    ELSE [raised |-> FALSE, v |-> MaxFrom(d.keys, d.val, 2, d.keys[1])]

\* except: probability_dict[word] = float('-inf')
RecExcept == NegInf

RecInit ==
    /\ models \in Banks
    /\ n_items \in 0..MaxItems
    /\ rpc = "called"
    /\ item = 0
    /\ widx = 0
    /\ probability_dict = EmptyDict
    /\ probabilities = <<>>
    /\ guesses = <<>>
    /\ rlog = <<>>

\* probabilities = []; guesses = []
RecognizeStart ==
    /\ rpc = "called"
    /\ probabilities' = <<>>
    /\ guesses' = <<>>
    /\ rpc' = "items"
    /\ UNCHANGED <<models, n_items, item, widx, probability_dict, rlog>>
    /\ UNCHANGED selVars

\* for X, lengths in ...: probability_dict = {}
NextItem ==
    /\ rpc = "items"
    /\ item < n_items
    /\ item' = item + 1
    /\ probability_dict' = EmptyDict
    /\ widx' = 0
    /\ rlog' = Append(rlog, <<>>)
    /\ rpc' = "words"
    /\ UNCHANGED <<models, n_items, probabilities, guesses>>
    /\ UNCHANGED selVars

\* one pass of the loop over models.items()
ScoreWord ==
    /\ rpc = "words"
    /\ widx < Len(models)
    /\ \E sc \in ScoreOutcomes :
        LET word == models[widx + 1]
            s == ModelScore(Model(1, "full"), sc)
        IN /\ probability_dict' =
                 DictSet(probability_dict, word,
                         IF s.raised THEN RecExcept ELSE s.v)
           /\ rlog' = [rlog EXCEPT ![item] =
                 [w \in DOMAIN rlog[item] \cup {word} |->
                    IF w = word THEN sc ELSE rlog[item][w]]]
    /\ widx' = widx + 1
    /\ UNCHANGED <<models, n_items, rpc, item, probabilities, guesses>>
    /\ UNCHANGED selVars

\* probabilities.append(probability_dict); guesses.append(max(...))
GuessItem ==
    /\ rpc = "words"
    /\ ~(widx < Len(models))
    /\ probabilities' = Append(probabilities, probability_dict)
    /\ LET g == PyMax(probability_dict)
       IN IF g.raised
          THEN rpc' = "raised" /\ guesses' = guesses
          ELSE rpc' = "items" /\ guesses' = Append(guesses, g.v)
    /\ UNCHANGED <<models, n_items, item, widx, probability_dict, rlog>>
    /\ UNCHANGED selVars

\* return (probabilities, guesses)
RecReturn ==
    /\ rpc = "items"
    /\ ~(item < n_items)
    /\ rpc' = "done"
    /\ UNCHANGED <<models, n_items, item, widx, probability_dict,
                   probabilities, guesses, rlog>>
    /\ UNCHANGED selVars

RecIdle ==
    /\ models = <<>>
    /\ n_items = 0
    /\ rpc = "idle"
    /\ item = 0
    /\ widx = 0
    /\ probability_dict = EmptyDict
    /\ probabilities = <<>>
    /\ guesses = <<>>
    /\ rlog = <<>>

SelIdle ==
    /\ strategy = "Constant"
    /\ min_n_components = 1
    /\ max_n_components = 1
    /\ n_constant = DefaultNConstant
    /\ n_sequences = 1
    /\ n_others = 1
    /\ n_features = 1
    /\ n_frames = 1
    /\ pc = "idle"
    /\ num_states = 0
    /\ best_model = None
    /\ best_score = NaN
    /\ best_num_components = NoneInt
    /\ retrain_arg = NoneInt
    /\ result = None
    /\ log = <<>>

\* ------------------------------------------------------ specifications
\* one select() call of one selector on one word
Init == SelInit /\ RecIdle

Next ==
    \/ ConstantSelect
    \/ BICStart
    \/ BICIter
    \/ BICReturn
    \/ DICStart
    \/ DICIter
    \/ DICReturn
    \/ CVStart
    \/ CVIter
    \/ CVReturn

Spec == Init /\ [][Next]_vars

\* one recognize() call
RecSpecInit == RecInit /\ SelIdle

RecNext ==
    \/ RecognizeStart
    \/ NextItem
    \/ ScoreWord
    \/ GuessItem
    \/ RecReturn

RecSpec == RecSpecInit /\ [][RecNext]_vars

\* ---------------------------------------------------------- properties
Searching == strategy \in {"BIC", "DIC", "CV"}
Done == pc = "done"

LogIdx == 1..Len(log)
\* the candidates whose training and every score call succeeded
OkIdx == {i \in LogIdx : log[i].scored}

\* the states range(min_n_components, max_n_components + 1) runs through
SearchedRange == min_n_components..max_n_components

\* i is the first of the candidates in S that no candidate in S beats, where
\* beats(j, i) says candidate j is strictly better than candidate i
FirstBest(S, i, beats(_, _)) ==
    /\ i \in S
    /\ \A j \in S : ~beats(j, i)
    /\ \A j \in S : j < i => beats(i, j)

\* C1 as stated: whenever any strategy's select() returns a model, its
\* number of hidden states lies in [min_n_components, max_n_components].
C1_StatesInRangeAllStrategies ==
    (Done /\ result # None) => result.n \in SearchedRange

\* C1, amended: a model returned by SelectorBIC, SelectorDIC or SelectorCV
\* has its number of states in [min_n_components, max_n_components]; a model
\* returned by SelectorConstant has exactly n_constant states, whatever the
\* range is.
C1_StatesInRangeOfSearches ==
    (Done /\ result # None) =>
        IF strategy = "Constant"
        THEN result.n = n_constant
        ELSE result.n \in SearchedRange

C1_Witness ==
    /\ Done
    /\ Searching
    /\ min_n_components < max_n_components
    /\ result # None
    /\ result.n = max_n_components

\* C2 as stated: select() never returns None when at least one candidate
\* state count of its search trained successfully.
C2_ModelWheneverSomeCandidateTrained ==
    (Done /\ \E i \in LogIdx : log[i].trained) => result # None

\* C3 as stated: for every scored test item and every model whose score call
\* failed on it, the item's score table holds -inf for that word and the
\* returned score for every model that succeeded, and the item's guess is
\* never a word whose model failed.
C3_FailureIsolation ==
    \A i \in 1..Len(guesses) :
        \A w \in DOMAIN rlog[i] :
            IF rlog[i][w].ok
            THEN probabilities[i].val[w] = Fin(rlog[i][w].v, 1)
            ELSE /\ probabilities[i].val[w] = NegInf
                 /\ guesses[i] # w

\* BIC = -2 logL + p log N of a logged candidate, in thousandths, with
\* p = numStates^2 + 2 numStates numFeatures - 1
BICOf(i) ==
    -2000 * log[i].logL
        + (log[i].n * log[i].n + 2 * log[i].n * n_features - 1)
            * NpLogMilli(n_frames)

BICBeats(j, i) == BICOf(j) < BICOf(i)

\* C4: at every point of SelectorBIC's search the current best is a candidate
\* that trained and scored and whose BIC is <= the BIC of every other such
\* candidate seen so far (the first of them), and it is None exactly when
\* there is none; candidates that failed do not enter. select() returns
\* that best.
C4_BICMinimal ==
    (strategy = "BIC" /\ pc \in {"loop", "done"}) =>
        /\ IF OkIdx = {}
           THEN best_model = None
           ELSE \E i \in OkIdx :
                   /\ FirstBest(OkIdx, i, BICBeats)
                   /\ best_model = Model(log[i].n, "full")
                   /\ best_score = Fin(BICOf(i), 1000)
        /\ Done => result = best_model

\* a failed candidate, and two scored ones of which the one with the lower
\* log-likelihood wins on the penalty
C4_Witness ==
    /\ strategy = "BIC"
    /\ Done
    /\ \E i, j, k \in LogIdx :
          /\ ~log[k].trained
          /\ log[i].scored /\ log[j].scored
          /\ log[i].logL < log[j].logL
          /\ result = Model(log[i].n, "full")

\* DIC = logL - mean(anti) of a logged candidate times the number of other
\* words (the same for every candidate of a search)
DICTimesOthers(i) == log[i].cnt * log[i].logL - log[i].sum

DICBeats(j, i) == DICTimesOthers(j) > DICTimesOthers(i)

\* C5 as stated: SelectorDIC.select returns the candidate with the maximum
\* logL - mean(anti-likelihoods) among the candidates whose training and
\* every score call succeeded, the lowest numStates among equals.
C5_DICMaximal ==
    (strategy = "DIC" /\ Done /\ OkIdx # {}) =>
        \E i \in OkIdx :
            /\ FirstBest(OkIdx, i, DICBeats)
            /\ result = Model(log[i].n, "full")

\* mean fold log-likelihood of candidate j > that of candidate i
CVBeats(j, i) == log[j].sum * log[i].cnt > log[i].sum * log[j].cnt

\* C6: at every point of SelectorCV's search the selected state count is
\* that of the candidate with the highest mean fold log-likelihood among
\* those whose folds all trained and scored (None when there is none), the
\* final fit is asked for that state count, and a model select() returns
\* was fitted on the full data with that state count: never a fold model.
C6_CVFullDataAtBestMean ==
    (strategy = "CV" /\ pc \in {"loop", "done"}) =>
        /\ IF OkIdx = {}
           THEN best_num_components = NoneInt
           ELSE \E i \in OkIdx :
                   /\ FirstBest(OkIdx, i, CVBeats)
                   /\ best_num_components = Some(log[i].n)
        /\ Done => /\ retrain_arg = best_num_components
                   /\ result # None =>
                        result = Model(best_num_components.v, "full")

\* folds were used, one candidate lost a fold, and the winner is not the
\* first candidate
C6_Witness ==
    /\ strategy = "CV"
    /\ Done
    /\ n_sequences >= 2
    /\ result # None
    /\ \E i, j, k \in LogIdx :
          /\ log[k].trained /\ ~log[k].scored
          /\ log[i].scored /\ log[j].scored
          /\ j < i
          /\ result = Model(log[i].n, "full")

\* C7: SelectorCV uses 2 folds for a word with 2 sequences and 3 folds for
\* one with 3 or more, never more folds than sequences; with 1 sequence
\* there is no split, the candidate's value is the single score of the
\* full-data model, and select() does not raise.
C7_FoldCount ==
    strategy = "CV" =>
        /\ pc # "raised"
        /\ \A i \in LogIdx :
              /\ n_sequences = 2 => log[i].folds = 2
              /\ n_sequences >= 3 => log[i].folds = 3
              /\ log[i].folds <= n_sequences
              /\ n_sequences = 1 =>
                    /\ log[i].folds = 0
                    /\ log[i].on = "full"
                    /\ log[i].scored => log[i].cnt = 1
              /\ n_sequences > 1 =>
                    /\ log[i].on = "fold"
                    /\ log[i].scored => log[i].cnt = log[i].folds

C7_Witness ==
    /\ strategy = "CV"
    /\ Done
    /\ n_sequences = 2
    /\ result # None
    /\ \E i \in LogIdx : log[i].scored /\ log[i].folds = 2

\* C8: the searches of SelectorBIC, SelectorDIC and SelectorCV never raise,
\* visit every state count of [min, max] once and in increasing order, and
\* return None when every candidate failed; SelectorCV then asks the final
\* fit for no state count.
C8_FailuresRecovered ==
    Searching =>
        /\ pc # "raised"
        /\ \A i \in LogIdx : log[i].n = min_n_components + i - 1
        /\ \A i \in LogIdx : log[i].n \in SearchedRange
        /\ Done =>
              /\ Len(log) = Cardinality(SearchedRange)
              /\ OkIdx = {} => result = None
              /\ (OkIdx = {} /\ strategy = "CV") => retrain_arg = NoneInt

\* two candidates, one that did not train and one that trained and did not
\* score
C8_Witness ==
    /\ Searching
    /\ Done
    /\ OkIdx = {}
    /\ result = None
    /\ \E i, j \in LogIdx : ~log[i].trained /\ log[j].trained

\* position of word w in the bank's iteration order
BankPos(w) == CHOOSE p \in 1..Len(models) : models[p] = w

\* C9: each guess is a word of the bank whose recorded score is >= every
\* other word's recorded score for the item, and the first such word in the
\* bank's iteration order.
C9_GuessIsFirstMaximum ==
    \A i \in 1..Len(guesses) :
        LET g == guesses[i]
            val == probabilities[i].val
        IN /\ \E p \in 1..Len(models) : models[p] = g
           /\ \A p \in 1..Len(models) :
                 /\ ~Lt(val[g], val[models[p]])
                 /\ p < BankPos(g) => Lt(val[models[p]], val[g])

\* two words tie at a finite maximum and the guess is the one the bank
\* iterates first, which is not the smaller word
C9_Witness ==
    /\ rpc = "done"
    /\ Len(models) >= 2
    /\ models[1] > models[2]
    /\ Len(guesses) >= 1
    /\ guesses[1] = models[1]
    /\ probabilities[1].val[models[1]] = probabilities[1].val[models[2]]
    /\ probabilities[1].val[models[1]].k = "fin"

\* the value the searches return when candidates were attempted and all
\* failed (C8)
FailureResult == None

\* C10 as stated: the result of a search in which no candidate was attempted
\* (empty range) is not the value returned when all candidates failed.
C10_FailureDistinctFromNoCandidates ==
    (Searching /\ Done /\ log = <<>>) => result # FailureResult

\* C10, amended: the search starts with no best, and its terminal result is
\* either a concrete model of a candidate that trained and scored or the
\* one value None, which is returned when candidates were attempted and all
\* failed and also when no candidate was attempted.
C10_ModelOrNone ==
    Searching =>
        /\ (pc = "loop" /\ log = <<>>) =>
              best_model = None /\ best_num_components = NoneInt
        /\ Done =>
              /\ result # None =>
                    \E i \in OkIdx : result = Model(log[i].n, "full")
              /\ log = <<>> => result = None
              /\ (log # <<>> /\ OkIdx = {}) => result = FailureResult

C10_Witness ==
    /\ Searching
    /\ Done
    /\ min_n_components > max_n_components
    /\ log = <<>>
    /\ result = None
====
